---- MODULE Spec2Model ----
(***************************************************************************)
(* Model of the soroban vault contract (src/src/lib.rs).                   *)
(*                                                                         *)
(* The contract's storage (e.data()) is the record `data`, one field per   *)
(* DataKey.  The vault's holdings in the token contract are `tokenBalance`.*)
(* Every entry point is one action: the handler runs from the first line   *)
(* to the last or to its first panic, and the host keeps the writes of a   *)
(* handler that returned and discards those of one that panicked.          *)
(* `last` records the most recent call: its arguments, its outcome, the    *)
(* token transfers it issued and the state it started from.                *)
(***************************************************************************)
EXTENDS Integers, FiniteSets, Sequences, TLC

VARIABLES data, tokenBalance, accepted, last

vars == <<data, tokenBalance, accepted, last>>

(***************************************************************************)
(* Bounds of the model.  BigInt is unbounded in the code; the actions are  *)
(* guarded so that the stored values stay within these limits.             *)
(***************************************************************************)
MaxAmount == 2
MaxShares == 3
MaxDebt == 1
MaxToken == 2
MaxNonce == 2

Ids == {"user1", "user2"}
TokenIds == {"usdc", "other"}
None == "none"

\* arguments a caller may pass: BigInt is signed, so negative values are inputs too
Amounts == (-1) .. MaxAmount
NonceArgs == 0 .. MaxNonce

\* soroban_auth::Signature: the Invoker variant or a signed variant; `id` is what
\* Signature::identifier resolves it to
Signatures == [kind : {"Invoker", "Signed"}, id : Ids]

Abs(x) == IF x < 0 THEN -x ELSE x

\* BigInt `/`: the quotient truncated toward zero (b # 0)
BigIntDiv(a, b) ==
  LET q == Abs(a) \div Abs(b)
  IN IF (a < 0) # (b < 0) THEN -q ELSE q

\* the mathematical floor of a / b (b # 0)
FloorDiv(a, b) == IF b > 0 THEN a \div b ELSE (-a) \div (-b)

(***************************************************************************)
(* The environment a handler runs in: the contract's storage, the vault's  *)
(* balance in the token contract and the xfer calls issued so far.         *)
(***************************************************************************)
Env(d, t) == [data |-> d, tokenBalance |-> t, xfers |-> <<>>]

\* outcome of a step of a handler: it returned, or it panicked
Ok(e) == [err |-> "Ok", e |-> e]
Panic(kind, e) == [err |-> kind, e |-> e]

get_tot_supply(e) == e.data.TotSupply

put_tot_supply(e, supply) == [e EXCEPT !.data.TotSupply = supply]

get_id_balance(e, id) == e.data.Balance[id]

put_id_balance(e, id, amount) == [e EXCEPT !.data.Balance[id] = amount]

put_token_id(e, token_id) == [e EXCEPT !.data.TokenId = token_id]

get_token_id(e) == e.data.TokenId

\* token::Client::balance of the vault's own identifier, in the token contract
\* that get_token_id names
get_token_balance(e) == e.tokenBalance

has_administrator(e) == e.data.Admin # None

read_administrator(e) == e.data.Admin

write_administrator(e, id) == [e EXCEPT !.data.Admin = id]

read_nonce(e, id) == e.data.Nonce[id]

\* Signature::identifier
identifier(sig) == sig.id

\* token::Client::xfer from the vault (Signature::Invoker) to `to`.  The token
\* contract is an external collaborator: it refuses to spend more than the vault
\* holds; whether it refuses a negative amount depends on the token contract
\* deployed (accepts_negative), and one that accepts it moves the amount as signed.
token_xfer(e, to, amount, accepts_negative) ==
  LET id == get_token_id(e)
      call == [token |-> id, to |-> to, amount |-> amount]
  IN IF amount > e.tokenBalance \/ (amount < 0 /\ ~accepts_negative)
       THEN Panic("TransferFailed", e)
       ELSE Ok([e EXCEPT !.tokenBalance = @ - amount,
                         !.xfers = Append(@, call)])

transfer(e, to, amount, accepts_negative) ==
  token_xfer(e, to, amount, accepts_negative)

\* a check that reads the administrator and never compares it
check_admin_unguarded(e, auth) ==
  IF ~has_administrator(e) THEN Panic("NotInitialized", e) ELSE Ok(e)

\* a check that lets every caller through while no administrator is stored
check_admin_absent_passes(e, auth) ==
  IF ~has_administrator(e) THEN Ok(e)
  ELSE IF identifier(auth) # read_administrator(e) THEN Panic("Unauthorized", e)
  ELSE Ok(e)

check_admin(e, auth) ==
  LET auth_id == identifier(auth)
  IN IF ~has_administrator(e) THEN Panic("NotInitialized", e)
     ELSE IF auth_id # read_administrator(e) THEN Panic("Unauthorized", e)
     ELSE Ok(e)

\* a guard that checks the nonce and forgets to advance it
verify_nonce_without_consuming(e, auth, expected_nonce) ==
  IF auth.kind = "Invoker"
    THEN IF 0 # expected_nonce THEN Panic("InvalidNonce", e) ELSE Ok(e)
    ELSE IF read_nonce(e, identifier(auth)) # expected_nonce
           THEN Panic("InvalidNonce", e)
           ELSE Ok(e)

\* a guard that advances the stored nonce for Invoker calls too
verify_and_consume_nonce_invoker_bumps(e, auth, expected_nonce) ==
  IF auth.kind = "Invoker"
    THEN IF 0 # expected_nonce THEN Panic("InvalidNonce", e)
         ELSE Ok([e EXCEPT !.data.Nonce[identifier(auth)] = @ + 1])
    ELSE LET id == identifier(auth)
             nonce == read_nonce(e, id)
         IN IF nonce # expected_nonce
              THEN Panic("InvalidNonce", e)
              ELSE Ok([e EXCEPT !.data.Nonce[id] = nonce + 1])

\* a guard that compares an Invoker's nonce with the stored one
verify_and_consume_nonce_invoker_stored(e, auth, expected_nonce) ==
  LET id == identifier(auth)
      nonce == read_nonce(e, id)
  IN IF nonce # expected_nonce THEN Panic("InvalidNonce", e)
     ELSE IF auth.kind = "Invoker" THEN Ok(e)
     ELSE Ok([e EXCEPT !.data.Nonce[id] = nonce + 1])

verify_and_consume_nonce(e, auth, expected_nonce) ==
  IF auth.kind = "Invoker"
    THEN IF 0 # expected_nonce THEN Panic("InvalidNonce", e) ELSE Ok(e)
    ELSE LET id == identifier(auth)
             nonce == read_nonce(e, id)
         IN IF nonce # expected_nonce
              THEN Panic("InvalidNonce", e)
              ELSE Ok([e EXCEPT !.data.Nonce[id] = nonce + 1])

\* a mint that forgets the total supply
mint_shares_balance_only(e, to, shares) ==
  put_id_balance(e, to, get_id_balance(e, to) + shares)

mint_shares(e, to, shares) ==
  LET tot_supply == get_tot_supply(e)
      id_balance == get_id_balance(e, to)
  IN put_id_balance(put_tot_supply(e, tot_supply + shares), to, id_balance + shares)

\* a burn that accepts the whole balance
burn_shares_allows_full(e, to, shares) ==
  LET tot_supply == get_tot_supply(e)
      id_balance == get_id_balance(e, to)
  IN IF ~(shares <= id_balance)
       THEN Panic("InsufficientShares", e)
       ELSE Ok(put_id_balance(put_tot_supply(e, tot_supply - shares), to,
                              id_balance - shares))

burn_shares(e, to, shares) ==
  LET tot_supply == get_tot_supply(e)
      id_balance == get_id_balance(e, to)
  IN IF ~(shares < id_balance)
       THEN Panic("InsufficientShares", e)
       ELSE Ok(put_id_balance(put_tot_supply(e, tot_supply - shares), to,
                              id_balance - shares))

\* an initialize without the has_administrator check
initialize_unchecked(e, admin, token_id) ==
  Ok(put_token_id(write_administrator(e, admin), token_id))

initialize(e, admin, token_id) ==
  IF has_administrator(e)
    THEN Panic("AlreadyInitialized", e)
    ELSE Ok(put_token_id(write_administrator(e, admin), token_id))

nonce(e) ==
  IF ~has_administrator(e) THEN Panic("NotInitialized", e) ELSE Ok(e)

nonce_value(e) == read_nonce(e, read_administrator(e))

get_shares(e, id) == e.data.Balance[id]

\* a deposit that mints amount + 1 on the first-depositor branch
deposit_first_off_by_one(e, admin_auth, from, amount) ==
  LET r1 == check_admin(e, admin_auth.sig)
  IN IF r1.err # "Ok" THEN r1 ELSE
     LET r2 == verify_and_consume_nonce(r1.e, admin_auth.sig, admin_auth.nonce)
     IN IF r2.err # "Ok" THEN r2 ELSE
        LET tot_supply == get_tot_supply(r2.e)
        IN IF 0 = tot_supply
             THEN Ok(mint_shares(r2.e, from, amount + 1))
             ELSE LET den == get_token_balance(r2.e) - amount
                  IN IF den = 0
                       THEN Panic("DivisionByZero", r2.e)
                       ELSE Ok(mint_shares(r2.e, from,
                                           BigIntDiv(amount * tot_supply, den)))

\* a deposit that verifies the nonce before it checks the administrator
deposit_nonce_first(e, admin_auth, from, amount) ==
  LET r1 == IF has_administrator(e)
              THEN verify_and_consume_nonce(e, admin_auth.sig, admin_auth.nonce)
              ELSE Panic("NotInitialized", e)
  IN IF r1.err # "Ok" THEN r1 ELSE
     LET r2 == check_admin(r1.e, admin_auth.sig)
     IN IF r2.err # "Ok" THEN r2 ELSE
        LET tot_supply == get_tot_supply(r2.e)
        IN IF 0 = tot_supply
             THEN Ok(mint_shares(r2.e, from, amount))
             ELSE LET den == get_token_balance(r2.e) - amount
                  IN IF den = 0
                       THEN Panic("DivisionByZero", r2.e)
                       ELSE Ok(mint_shares(r2.e, from,
                                           BigIntDiv(amount * tot_supply, den)))

\* a deposit that mints one share more than the ratio gives
deposit_mints_one_more(e, admin_auth, from, amount) ==
  LET r1 == check_admin(e, admin_auth.sig)
  IN IF r1.err # "Ok" THEN r1 ELSE
     LET r2 == verify_and_consume_nonce(r1.e, admin_auth.sig, admin_auth.nonce)
     IN IF r2.err # "Ok" THEN r2 ELSE
        LET tot_supply == get_tot_supply(r2.e)
        IN IF 0 = tot_supply
             THEN Ok(mint_shares(r2.e, from, amount))
             ELSE LET den == get_token_balance(r2.e) - amount
                  IN IF den = 0
                       THEN Panic("DivisionByZero", r2.e)
                       ELSE Ok(mint_shares(r2.e, from,
                                           BigIntDiv(amount * tot_supply, den) + 1))

deposit(e, admin_auth, from, amount) ==
  LET r1 == check_admin(e, admin_auth.sig)
  IN IF r1.err # "Ok" THEN r1 ELSE
     LET r2 == verify_and_consume_nonce(r1.e, admin_auth.sig, admin_auth.nonce)
     IN IF r2.err # "Ok" THEN r2 ELSE
        LET tot_supply == get_tot_supply(r2.e)
        IN IF 0 = tot_supply
             THEN Ok(mint_shares(r2.e, from, amount))
             ELSE LET den == get_token_balance(r2.e) - amount
                  IN IF den = 0
                       THEN Panic("DivisionByZero", r2.e)
                       ELSE Ok(mint_shares(r2.e, from,
                                           BigIntDiv(amount * tot_supply, den)))

\* a withdraw that pays for one share more than it burns
withdraw_pays_one_share_more(e, admin_auth, to, shares, accepts_negative) ==
  LET r1 == check_admin(e, admin_auth.sig)
  IN IF r1.err # "Ok" THEN r1 ELSE
     LET r2 == verify_and_consume_nonce(r1.e, admin_auth.sig, admin_auth.nonce)
     IN IF r2.err # "Ok" THEN r2 ELSE
        LET tot_supply == get_tot_supply(r2.e)
        IN IF tot_supply = 0 THEN Panic("DivisionByZero", r2.e) ELSE
           LET amount == BigIntDiv((shares + 1) * get_token_balance(r2.e), tot_supply)
               r3 == burn_shares(r2.e, to, shares)
           IN IF r3.err # "Ok" THEN r3
              ELSE transfer(r3.e, to, amount, accepts_negative)

withdraw(e, admin_auth, to, shares, accepts_negative) ==
  LET r1 == check_admin(e, admin_auth.sig)
  IN IF r1.err # "Ok" THEN r1 ELSE
     LET r2 == verify_and_consume_nonce(r1.e, admin_auth.sig, admin_auth.nonce)
     IN IF r2.err # "Ok" THEN r2 ELSE
        LET tot_supply == get_tot_supply(r2.e)
        IN IF tot_supply = 0 THEN Panic("DivisionByZero", r2.e) ELSE
           LET amount == BigIntDiv(shares * get_token_balance(r2.e), tot_supply)
               r3 == burn_shares(r2.e, to, shares)
           IN IF r3.err # "Ok" THEN r3
              ELSE transfer(r3.e, to, amount, accepts_negative)

\* a host that keeps the writes a handler made before it panicked
invoke_without_rollback(e, r) == r.e

\* The host's invocation frame around an entry point: the writes of a handler
\* that returned are kept, those of one that panicked are discarded.
invoke(e, r) == IF r.err = "Ok" THEN r.e ELSE e

(***************************************************************************)
(* State machine.  A call is one step: the handler runs as a whole and     *)
(* `last` holds the invocation until Return hands its result to the caller.*)
(* The next invocation starts after that.                                  *)
(***************************************************************************)
NoAuth == [sig |-> [kind |-> "Invoker", id |-> None], nonce |-> 0]

Pre == [data |-> data, tokenBalance |-> tokenBalance, accepted |-> accepted]

Idle ==
  [op |-> "none", auth |-> NoAuth, id |-> None, token |-> None, amount |-> 0,
   err |-> "Ok", ret |-> 0, xfers |-> <<>>, pre |-> None]

Call(op, auth, id, token, amount, r, ret) ==
  [op |-> op, auth |-> auth, id |-> id, token |-> token, amount |-> amount,
   err |-> r.err, ret |-> ret, xfers |-> IF r.err = "Ok" THEN r.e.xfers ELSE <<>>,
   pre |-> Pre]

InBounds(e) ==
  /\ e.data.TotSupply \in (-MaxDebt) .. MaxShares
  /\ \A id \in Ids : e.data.Balance[id] \in (-MaxDebt) .. MaxShares
  /\ \A id \in Ids : e.data.Nonce[id] <= MaxNonce
  /\ e.tokenBalance \in 0 .. MaxToken

\* the nonces that successful Signed calls have carried, per identity
Accept(call) ==
  IF call.op \in {"deposit", "withdraw"} /\ call.err = "Ok"
     /\ call.auth.sig.kind = "Signed"
    THEN [accepted EXCEPT ![call.auth.sig.id] = @ \cup {call.auth.nonce}]
    ELSE accepted

Commit(e1, call) ==
  /\ last.op = "none"
  /\ InBounds(e1)
  /\ data' = e1.data
  /\ tokenBalance' = e1.tokenBalance
  /\ accepted' = Accept(call)
  /\ last' = call

Init ==
  /\ data = [TokenId |-> None, Admin |-> None, TotSupply |-> 0,
             Balance |-> [id \in Ids |-> 0], Nonce |-> [id \in Ids |-> 0]]
  /\ tokenBalance = 0
  /\ accepted = [id \in Ids |-> {}]
  /\ last = Idle

Initialize ==
  \E admin \in Ids, token_id \in TokenIds :
    LET e == Env(data, tokenBalance)
        r == initialize(e, admin, token_id)
    IN Commit(invoke(e, r), Call("initialize", NoAuth, admin, token_id, 0, r, 0))

NonceView ==
  LET e == Env(data, tokenBalance)
      r == nonce(e)
  IN Commit(invoke(e, r),
            Call("nonce", NoAuth, None, None, 0, r,
                 IF r.err = "Ok" THEN nonce_value(e) ELSE 0))

GetShares ==
  \E id \in Ids :
    LET e == Env(data, tokenBalance)
    IN Commit(e, Call("get_shares", NoAuth, id, None, 0, Ok(e), get_shares(e, id)))

Deposit ==
  \E sig \in Signatures, n \in NonceArgs, from \in Ids, amount \in Amounts :
    LET e == Env(data, tokenBalance)
        auth == [sig |-> sig, nonce |-> n]
        r == deposit(e, auth, from, amount)
    IN Commit(invoke(e, r), Call("deposit", auth, from, None, amount, r, 0))

Withdraw ==
  \E sig \in Signatures, n \in NonceArgs, to \in Ids, shares \in Amounts,
     accepts_negative \in BOOLEAN :
    LET e == Env(data, tokenBalance)
        auth == [sig |-> sig, nonce |-> n]
        r == withdraw(e, auth, to, shares, accepts_negative)
    IN Commit(invoke(e, r), Call("withdraw", auth, to, None, shares, r, 0))

\* Tokens arrive at the vault from outside: a depositor's transfer or yield.
TokenArrives ==
  \E amount \in 1 .. MaxAmount :
    LET e == [Env(data, tokenBalance) EXCEPT !.tokenBalance = @ + amount]
    IN Commit(e, Call("token_arrives", NoAuth, None, None, amount, Ok(e), 0))

\* the invocation's result reaches the caller
Return ==
  /\ last.op # "none"
  /\ last' = Idle
  /\ UNCHANGED <<data, tokenBalance, accepted>>

Next ==
  \/ Initialize
  \/ NonceView
  \/ GetShares
  \/ Deposit
  \/ Withdraw
  \/ TokenArrives
  \/ Return

Spec == Init /\ [][Next]_vars

(***************************************************************************)
(* The vault as its callers are trusted to use it: every amount and share  *)
(* argument is non-negative, and the depositor's transfer of `amount` has  *)
(* reached the vault when deposit runs (the transfer and the deposit are   *)
(* one step).  The transfer is the depositor's own call to the token and   *)
(* stays if the deposit fails.                                             *)
(***************************************************************************)
NonNegAmounts == 0 .. MaxAmount

FundedInBounds(e) ==
  /\ e.data.TotSupply \in (-MaxDebt) .. MaxShares
  /\ \A id \in Ids : e.data.Balance[id] \in (-MaxDebt) .. MaxShares
  /\ \A id \in Ids : e.data.Nonce[id] <= MaxNonce
  /\ e.tokenBalance \in 0 .. (MaxToken + MaxShares)

FundedCommit(e1, call) ==
  /\ last.op = "none"
  /\ FundedInBounds(e1)
  /\ data' = e1.data
  /\ tokenBalance' = e1.tokenBalance
  /\ accepted' = Accept(call)
  /\ last' = call

FundedInitialize ==
  \E admin \in Ids, token_id \in TokenIds :
    LET e == Env(data, tokenBalance)
        r == initialize(e, admin, token_id)
    IN FundedCommit(invoke(e, r),
                    Call("initialize", NoAuth, admin, token_id, 0, r, 0))

FundedDeposit ==
  \E sig \in Signatures, n \in NonceArgs, from \in Ids, amount \in NonNegAmounts :
    LET e == [Env(data, tokenBalance) EXCEPT !.tokenBalance = @ + amount]
        auth == [sig |-> sig, nonce |-> n]
        r == deposit(e, auth, from, amount)
    IN FundedCommit(invoke(e, r), Call("deposit", auth, from, None, amount, r, 0))

FundedWithdraw ==
  \E sig \in Signatures, n \in NonceArgs, to \in Ids, shares \in NonNegAmounts,
     accepts_negative \in BOOLEAN :
    LET e == Env(data, tokenBalance)
        auth == [sig |-> sig, nonce |-> n]
        r == withdraw(e, auth, to, shares, accepts_negative)
    IN FundedCommit(invoke(e, r), Call("withdraw", auth, to, None, shares, r, 0))

\* yield: tokens minted or sent to the vault from outside
Yield ==
  \E amount \in 1 .. MaxAmount :
    LET e == [Env(data, tokenBalance) EXCEPT !.tokenBalance = @ + amount]
    IN FundedCommit(e, Call("token_arrives", NoAuth, None, None, amount, Ok(e), 0))

FundedNext ==
  \/ FundedInitialize
  \/ FundedDeposit
  \/ FundedWithdraw
  \/ Yield
  \/ Return

SpecFunded == Init /\ [][FundedNext]_vars

(***************************************************************************)
(* Properties.                                                             *)
(***************************************************************************)
RECURSIVE SumOver(_, _)
SumOver(f, S) ==
  IF S = {} THEN 0
  ELSE LET x == CHOOSE y \in S : TRUE IN f[x] + SumOver(f, S \ {x})

Acted(op) == last.op = op
Succeeded == last.err = "Ok"
Economic == last.op \in {"deposit", "withdraw"}

\* the beneficiary's balance and the total supply grew by n in the last call
MintedExactly(n) ==
  /\ data.TotSupply = last.pre.data.TotSupply + n
  /\ data.Balance[last.id] = last.pre.data.Balance[last.id] + n

\* C1: in every reachable state, after successful and failed calls and after
\* tokens arriving from outside, the stored share balances of all identities
\* sum to the stored total supply.
C1_SupplyIsSumOfBalances == SumOver(data.Balance, Ids) = data.TotSupply

C1_Witness ==
  /\ Acted("withdraw") /\ Succeeded /\ last.amount > 0
  /\ \A id \in Ids : data.Balance[id] # 0

\* C2: in every reachable state the total supply and every share balance are
\* non-negative, whatever integers the administrator passed.
C2_SharesNonNegative ==
  /\ data.TotSupply >= 0
  /\ \A id \in Ids : data.Balance[id] >= 0

\* C3: a successful deposit of A made while the total supply is 0 mints exactly
\* A shares: the beneficiary's balance and the total supply both grow by A,
\* whatever the vault's token balance is.
C3_FirstDepositMintsAmount ==
  (Acted("deposit") /\ Succeeded /\ last.pre.data.TotSupply = 0)
    => MintedExactly(last.amount)

C3_Witness ==
  /\ Acted("deposit") /\ Succeeded /\ last.pre.data.TotSupply = 0
  /\ last.amount = 2 /\ tokenBalance # last.amount
  /\ data.Balance[last.id] = 2

\* C4: a successful deposit of A made while the total supply S is greater than
\* 0, with pre-deposit token balance P (the balance read in the call minus A),
\* mints exactly floor(A * S / P) shares.
C4_DepositMintsFloor ==
  (Acted("deposit") /\ Succeeded /\ last.pre.data.TotSupply > 0)
    => MintedExactly(FloorDiv(last.amount * last.pre.data.TotSupply,
                              last.pre.tokenBalance - last.amount))

\* the token transfers of the last call are exactly one xfer of n to its beneficiary
PaidExactly(n) ==
  /\ last.xfers = <<[token |-> last.pre.data.TokenId, to |-> last.id, amount |-> n]>>
  /\ tokenBalance = last.pre.tokenBalance - n

\* C5: a successful withdraw of `shares` made at total supply S and token
\* balance V transfers exactly floor(shares * V / S) tokens from the vault to
\* the beneficiary and decreases the total supply and the beneficiary's balance
\* by exactly `shares`.
C5_WithdrawPaysFloor ==
  (Acted("withdraw") /\ Succeeded)
    => /\ PaidExactly(FloorDiv(last.amount * last.pre.tokenBalance,
                               last.pre.data.TotSupply))
       /\ MintedExactly(-last.amount)

\* the last call was authorised by the stored administrator with a nonce the
\* guard accepts
NonceValid ==
  IF last.auth.sig.kind = "Invoker"
    THEN last.auth.nonce = 0
    ELSE last.auth.nonce = last.pre.data.Nonce[last.auth.sig.id]

GuardPasses ==
  /\ last.pre.data.Admin # None
  /\ last.auth.sig.id = last.pre.data.Admin
  /\ NonceValid

\* the last call left the contract's storage and the vault's tokens as they were
Unchanged ==
  /\ data = last.pre.data
  /\ tokenBalance = last.pre.tokenBalance
  /\ last.xfers = <<>>

\* C6: a withdraw that passes the guard and whose `shares` is equal to or
\* greater than the beneficiary's balance fails with InsufficientShares and
\* changes nothing.
C6_FullWithdrawInsufficientShares ==
  (Acted("withdraw") /\ GuardPasses
     /\ last.amount >= last.pre.data.Balance[last.id])
    => (last.err = "InsufficientShares" /\ Unchanged)

Max(S) == CHOOSE n \in S : \A m \in S : m <= n

\* C7: once a Signed operation carrying nonce n by an identity has succeeded,
\* every later Signed operation by that identity carrying a nonce <= n fails
\* with InvalidNonce, and the next one that succeeds carries exactly n + 1.
C7_NoReplay ==
  (Economic /\ last.auth.sig.kind = "Signed")
    => LET prior == last.pre.accepted[last.auth.sig.id]
       IN /\ (\E n \in prior : last.auth.nonce <= n) => last.err = "InvalidNonce"
          /\ (Succeeded /\ prior # {}) => last.auth.nonce = Max(prior) + 1

C7_Witness ==
  /\ Economic /\ last.auth.sig.kind = "Signed"
  /\ Cardinality(last.pre.accepted[last.auth.sig.id]) = 2
  /\ last.auth.nonce \in last.pre.accepted[last.auth.sig.id]
  /\ last.err = "InvalidNonce"

\* C8: a deposit or withdraw whose proof resolves to an identity other than
\* the stored administrator fails with Unauthorized and leaves balances,
\* supply, nonces and the vault's tokens unchanged, whatever nonce and amount
\* it carries.
C8_NonAdminUnauthorized ==
  (Economic /\ last.pre.data.Admin # None
     /\ last.auth.sig.id # last.pre.data.Admin)
    => (last.err = "Unauthorized" /\ Unchanged)

C8_Witness ==
  /\ Acted("withdraw") /\ last.pre.data.Admin # None
  /\ last.auth.sig.id # last.pre.data.Admin
  /\ last.auth.sig.kind = "Signed"
  /\ last.auth.nonce = last.pre.data.Nonce[last.pre.data.Admin]
  /\ last.amount > 0 /\ last.amount < last.pre.data.Balance[last.id]
  /\ last.err = "Unauthorized"

\* C9: initialize succeeds at most once: an initialize made after a successful
\* one fails with AlreadyInitialized, a successful one stores the values it was
\* given, and no later call changes the stored administrator or token id.
C9_InitializeOnce ==
  /\ (Acted("initialize") /\ Succeeded)
       => (data.Admin = last.id /\ data.TokenId = last.token)
  /\ (last.op # "none" /\ last.pre.data.Admin # None)
       => /\ data.Admin = last.pre.data.Admin
          /\ data.TokenId = last.pre.data.TokenId
          /\ Acted("initialize") => last.err = "AlreadyInitialized"

C9_Witness ==
  /\ Acted("initialize") /\ last.err = "AlreadyInitialized"
  /\ last.id # data.Admin /\ last.token # data.TokenId
  /\ data.TotSupply > 0

\* the last call passed the guard and failed at a later step
FailedAfterGuard ==
  /\ Economic /\ GuardPasses
  /\ last.err \in {"InsufficientShares", "DivisionByZero", "TransferFailed"}

C10_ReachDivisionByZero ==
  FailedAfterGuard /\ last.auth.sig.kind = "Signed" /\ last.err = "DivisionByZero"

C10_ReachTransferFailed ==
  FailedAfterGuard /\ last.auth.sig.kind = "Signed" /\ last.err = "TransferFailed"

\* C11: the administrator's stored nonce grows by exactly 1 in each successful
\* Signed deposit or withdraw and is unchanged by every other call (Invoker
\* calls, failed calls, initialize, get_shares, nonce, tokens arriving), so it
\* never decreases; nonce() returns it, and it equals the number of Signed
\* operations that have succeeded.
C11_AdminNonceCounts ==
  /\ data.Admin # None
       => data.Nonce[data.Admin] = Cardinality(accepted[data.Admin])
  /\ (last.op # "none" /\ last.pre.data.Admin # None)
       => LET a == last.pre.data.Admin
              signed_ok == Economic /\ Succeeded /\ last.auth.sig.kind = "Signed"
          IN data.Nonce[a] = last.pre.data.Nonce[a] + (IF signed_ok THEN 1 ELSE 0)
  /\ (Acted("nonce") /\ Succeeded) => last.ret = data.Nonce[data.Admin]

C11_Witness ==
  /\ Acted("nonce") /\ Succeeded
  /\ last.ret = 2 /\ accepted[data.Admin] = {0, 1}

\* C12: a deposit or withdraw that the administrator authorises with the
\* Invoker variant fails with InvalidNonce whenever its claimed nonce is not
\* zero, whatever the stored nonce is; with nonce zero the guard passes and
\* leaves every stored nonce unchanged.
C12_InvokerNonceMustBeZero ==
  (Economic /\ last.auth.sig.kind = "Invoker" /\ last.pre.data.Admin # None
     /\ last.auth.sig.id = last.pre.data.Admin)
    => /\ last.auth.nonce # 0 => (last.err = "InvalidNonce" /\ Unchanged)
       /\ last.auth.nonce = 0
            => /\ last.err \notin {"InvalidNonce", "Unauthorized", "NotInitialized"}
               /\ data.Nonce = last.pre.data.Nonce

C12_Witness ==
  /\ Economic /\ last.auth.sig.kind = "Invoker"
  /\ last.pre.data.Admin # None /\ last.auth.sig.id = last.pre.data.Admin
  /\ last.auth.nonce # 0
  /\ last.auth.nonce = last.pre.data.Nonce[last.auth.sig.id]
  /\ last.err = "InvalidNonce"

\* C13: while no administrator is stored every deposit and withdraw fails with
\* NotInitialized, whatever proof, nonce and amount it carries, and the store
\* stays as it is: no supply, no balances, no nonces.
C13_UninitializedRejects ==
  /\ (Economic /\ last.pre.data.Admin = None)
       => (last.err = "NotInitialized" /\ Unchanged)
  /\ data.Admin = None
       => /\ data.TotSupply = 0 /\ data.TokenId = None
          /\ \A id \in Ids : data.Balance[id] = 0 /\ data.Nonce[id] = 0

C13_Witness ==
  /\ Acted("deposit") /\ last.pre.data.Admin = None
  /\ last.auth.sig.kind = "Signed" /\ last.auth.nonce = 0
  /\ last.amount = 2 /\ tokenBalance = 2
  /\ last.err = "NotInitialized"

\* C17: only the administrator's nonce is ever written: the stored nonce of
\* every other identity is zero, and a call from an identity other than the
\* administrator that also carries a wrong nonce fails as Unauthorized, not
\* InvalidNonce.
C17_OnlyAdminNonceWritten ==
  /\ \A id \in Ids : id # data.Admin => data.Nonce[id] = 0
  /\ (Economic /\ last.pre.data.Admin # None
        /\ last.auth.sig.id # last.pre.data.Admin /\ ~NonceValid)
       => last.err = "Unauthorized"

C17_Witness ==
  /\ Acted("deposit") /\ last.pre.data.Admin # None
  /\ last.auth.sig.id # last.pre.data.Admin
  /\ last.auth.sig.kind = "Signed" /\ last.auth.nonce = 1
  /\ data.Nonce[data.Admin] = 1
  /\ last.err = "Unauthorized"

\* C14: a deposit fails only as Unauthorized, InvalidNonce or NotInitialized,
\* so a deposit that passes the guard succeeds; a withdraw fails only as
\* Unauthorized, InvalidNonce, InsufficientShares or NotInitialized, so a
\* withdraw that passes the guard with shares below the beneficiary's balance
\* succeeds.
C14_ClosedFailureKinds ==
  /\ Acted("deposit")
       => /\ last.err \in {"Ok", "Unauthorized", "InvalidNonce", "NotInitialized"}
          /\ GuardPasses => Succeeded
  /\ Acted("withdraw")
       => /\ last.err \in {"Ok", "Unauthorized", "InvalidNonce",
                           "InsufficientShares", "NotInitialized"}
          /\ (GuardPasses /\ last.amount < last.pre.data.Balance[last.id])
               => Succeeded

\* a deposit with non-negative amount that passes the guard divides by zero
C14_DepositDividesByZero ==
  /\ Acted("deposit") /\ GuardPasses /\ last.amount >= 0
  /\ \A id \in Ids : last.pre.data.Balance[id] >= 0
  /\ last.err = "DivisionByZero"

\* C15: with non-negative arguments, funded deposits and yield, a positive
\* total supply implies a positive vault balance, so the pre-deposit balance
\* that a deposit divides by while the supply is positive is positive.
C15_SupplyBackedByTokens ==
  /\ data.TotSupply > 0 => tokenBalance > 0
  /\ (Acted("deposit") /\ GuardPasses /\ last.pre.data.TotSupply > 0)
       => (last.pre.tokenBalance > 0 /\ last.err # "DivisionByZero")

C15_Witness ==
  /\ Acted("deposit") /\ Succeeded
  /\ last.pre.data.TotSupply > 0 /\ last.pre.tokenBalance = 1
  /\ last.amount > 0 /\ data.TotSupply > last.pre.data.TotSupply

\* the last step was a successful withdraw, funded deposit or yield arrival
ValueMoved ==
  /\ last.op \in {"deposit", "withdraw", "token_arrives"}
  /\ Succeeded

\* the vault balance per outstanding share did not decrease in the last step
NotDiluted ==
  tokenBalance * last.pre.data.TotSupply >= last.pre.tokenBalance * data.TotSupply

\* a withdraw paid at most shares * V / S, and less than V when V > 0
NotOverpaid ==
  LET paid == last.pre.tokenBalance - tokenBalance
  IN /\ paid * last.pre.data.TotSupply <= last.amount * last.pre.tokenBalance
     /\ last.pre.tokenBalance > 0 => paid < last.pre.tokenBalance

\* C16 as stated: for non-negative arguments and funded deposits, every
\* successful withdraw, funded deposit and yield arrival has V' * S >= V * S',
\* and a withdraw pays at most shares * V / S and less than V when V > 0.
C16_NeverDilutes ==
  ValueMoved => /\ NotDiluted
                /\ Acted("withdraw") => NotOverpaid

\* C16 amended: the same, for steps that start with a positive total supply.
C16_NeverDilutesOutstandingShares ==
  ValueMoved => /\ last.pre.data.TotSupply > 0 => NotDiluted
                /\ Acted("withdraw") => NotOverpaid

C16_Witness ==
  /\ Acted("withdraw") /\ Succeeded /\ last.amount > 0
  /\ last.pre.data.TotSupply = 3 /\ last.pre.tokenBalance = 4
  /\ tokenBalance = 3

\* the last step was not a deposit that minted a negative number of shares
NoNegativeMint ==
  ~(Acted("deposit") /\ Succeeded /\ data.TotSupply < last.pre.data.TotSupply)

\* C18: in a step that is not a negative mint, from a state without negative
\* balances: no balance becomes negative, a positive balance stays positive, a
\* positive total supply stays positive, and a deposit made while the supply is
\* positive takes the ratio branch, not the first-depositor branch.
C18_SharesNeverFullyRedeemed ==
  (last.op # "none" /\ NoNegativeMint
     /\ \A id \in Ids : last.pre.data.Balance[id] >= 0)
    => /\ \A id \in Ids : data.Balance[id] >= 0
       /\ \A id \in Ids : last.pre.data.Balance[id] > 0 => data.Balance[id] > 0
       /\ last.pre.data.TotSupply > 0 => data.TotSupply > 0
       /\ (Acted("deposit") /\ Succeeded /\ last.pre.data.TotSupply > 0)
            => MintedExactly(BigIntDiv(last.amount * last.pre.data.TotSupply,
                                       last.pre.tokenBalance - last.amount))

C18_Witness ==
  /\ Acted("withdraw") /\ Succeeded /\ last.amount > 0
  /\ last.amount = last.pre.data.Balance[last.id] - 1
  /\ data.TotSupply = 1
  /\ \A id \in Ids : last.pre.data.Balance[id] >= 0

\* the last call left the shares of every identity but its beneficiary, the
\* administrator and the token id as they were
OnlyBeneficiaryTouched ==
  /\ \A id \in Ids : id # last.id => data.Balance[id] = last.pre.data.Balance[id]
  /\ data.Admin = last.pre.data.Admin
  /\ data.TokenId = last.pre.data.TokenId

\* the last call issued exactly one xfer, from the vault to its beneficiary
OneTransferToBeneficiary ==
  /\ Len(last.xfers) = 1
  /\ last.xfers[1].to = last.id
  /\ last.xfers[1].token = data.TokenId
  /\ tokenBalance = last.pre.tokenBalance - last.xfers[1].amount

\* C19: a successful deposit or withdraw for beneficiary b leaves the shares
\* of every other identity, the administrator and the token id unchanged; a
\* deposit moves no tokens; a withdraw moves tokens only from the vault to b.
C19_OnlyBeneficiaryAffected ==
  (Economic /\ Succeeded)
    => /\ OnlyBeneficiaryTouched
       /\ Acted("deposit")
            => (tokenBalance = last.pre.tokenBalance /\ last.xfers = <<>>)
       /\ Acted("withdraw")
            => (OneTransferToBeneficiary /\ last.xfers[1].amount >= 0)

\* the part of C19 that does not depend on the sign of the amount transferred
C19_FrameWithoutDirection ==
  (Economic /\ Succeeded)
    => /\ OnlyBeneficiaryTouched
       /\ Acted("deposit")
            => (tokenBalance = last.pre.tokenBalance /\ last.xfers = <<>>)
       /\ Acted("withdraw") => OneTransferToBeneficiary

====
